---- MODULE Spec2Model ----
(***************************************************************************)
(* Model of the ctx plugin runner (tmc/ctx): run -> executePlugins ->      *)
(* formatOutput, as written in src/unnamed/part_003 (the current revision  *)
(* of cmd/ctx/main.go).                                                    *)
(*                                                                         *)
(* One goroutine per candidate is started by the main loop after it has   *)
(* taken a token of the semaphore channel; every goroutine runs the child  *)
(* process, decodes and validates its standard output and merges the       *)
(* envelope into the shared map under the mutex.  Time is discrete: a      *)
(* child with natural duration d exits d ticks after it was spawned, and   *)
(* the context made by context.WithTimeout fires pluginTimeout ticks after *)
(* run created it.  Steps of the orchestrator itself take no time: a tick  *)
(* happens only when every goroutine is waiting for a child.               *)
(*                                                                         *)
(* Spec, SpecEnvelope and SpecRetries run executePlugins from different    *)
(* sets of configurations and candidate lists.  SpecRun is the rest of the *)
(* process: main, findPlugins over a small file system, getSessionID,      *)
(* getPluginEnv over inherited environments, formatOutput and the exit,    *)
(* with executePlugins summarised by one step, for a first invocation and  *)
(* the ones started after it from the same shell.                          *)
(***************************************************************************)
EXTENDS Integers, Sequences, FiniteSets, TLC

\* ------------------------------------------------------------------ bounds
NumPlugins == 2          \* candidates returned by findPlugins
MaxParallel == 2         \* largest value of -P / --parallel explored
MaxDur == 2              \* longest natural run time of a child, in ticks
MaxTimeout == 2          \* largest --plugin-timeout explored, in ticks
MaxRetries == 2          \* largest --plugin-retries explored
IntBits == 4             \* width of Go's int in the model
TicksPerSecond == 2      \* clock ticks in a second
MaxNow == 2              \* latest start of an invocation, in ticks
MaxInvocations == 2      \* invocations of ctx that follow one another

Cands == 1..NumPlugins

\* Names a plugin may report.  Candidate c draws its name among the first c
\* names: names are opaque keys, so every pattern of equal and distinct names
\* occurs.
NameList == <<"alpha", "beta", "gamma", "delta", "epsilon", "zeta">>
NamesUpTo(c) == {NameList[i] : i \in 1..c}

\* ------------------------------------------------------- plugin programs
\* A JSON field of the child's standard output: <<>> when the key is absent,
\* <<v>> when it is present with value v.
\* Standard output is either text that is no JSON object (kind "text") or one
\* JSON object (kind "object").
NotJSON == [kind |-> "text", name |-> <<>>, version |-> <<>>, data |-> <<>>]
Obj(n, v, d) == [kind |-> "object", name |-> n, version |-> v, data |-> d]

\* What a candidate would do if left alone: whether the process can be
\* started, its exit status, its standard output and how long it runs.
Program(sp, ex, out, d) == [spawns |-> sp, exit |-> ex, out |-> out, dur |-> d]

\* The programs candidate c is drawn from.  Its data payload is c itself, so
\* that envelopes of different candidates differ even under one name.
ProgramsOf(c) ==
    {Program(TRUE, 0, Obj(<<n>>, <<"1.0">>, <<c>>), d) :
        n \in NamesUpTo(c), d \in 1..MaxDur}
    \cup {Program(TRUE, 0, NotJSON, 1)}
    \cup {Program(TRUE, 0, Obj(<<NameList[c]>>, <<"1.0">>, <<>>), 1)}
    \cup {Program(TRUE, 1, NotJSON, 1)}
    \cup {Program(FALSE, 1, NotJSON, 0)}

\* The data values `{}` and `null`, next to the payloads 1..NumPlugins.
EmptyObject == 0
JSONNull == -1

\* Every shape of envelope a child that exits with status 0 may print: each
\* of name and version absent, empty or non-empty, and data absent, null,
\* the empty object or a payload.
EnvelopePrograms(c) ==
    {Program(TRUE, 0, Obj(n, v, d), 1) :
        n \in {<<>>, <<"">>, <<NameList[c]>>},
        v \in {<<>>, <<"">>, <<"1.0">>},
        d \in {<<>>, <<JSONNull>>, <<EmptyObject>>, <<c>>}}

VARIABLES
    cfg,        \* config: maxParallelPlugins, pluginTimeout, verbose,
                \* pluginRetries
    plugins,    \* discoveredPlugins: candidate -> its program
    mainpc,     \* position of the goroutine running run/executePlugins
    idx,        \* the candidate the for loop of executePlugins is at
    semaphore,  \* number of tokens in the semaphore channel
    wg,         \* counter of the sync.WaitGroup
    mu,         \* holder of the sync.Mutex, 0 when unlocked
    results,    \* the aggregate map: name -> PluginData
    pc,         \* position of each candidate's goroutine
    left,       \* remaining natural run time of each candidate's child
    err,        \* what cmd.Output returned for each candidate
    ctxDone,    \* the context's Done channel is closed
    timeLeft,   \* ticks until the context's deadline
    warnings,   \* duplicate-name warnings that reached os.Stderr
    output,     \* what formatOutput read: <<>> or <<the map>>
    h,          \* history: observations the properties refer to
    rpc,        \* position of main/run outside executePlugins
    environ,    \* os.Environ() of the ctx process: entries [k, v]
    now,        \* time.Now(), in ticks since the epoch
    discovered, \* what findPlugins returned: a list of paths
    sessionID,  \* what getSessionID returned
    pending,    \* keys of varsToSet the final range has not reached yet
    finalEnv,   \* the slice getPluginEnv builds
    childEnv,   \* cmd.Env of each candidate that was run
    aggregate,  \* paths of the candidates whose envelope was merged
    proc,       \* what the process wrote and its exit status
    hist        \* the invocations that ran before this one

\* The variables of run outside executePlugins.
runVars == <<rpc, environ, now, discovered, sessionID, pending, finalEnv,
             childEnv, aggregate, proc, hist>>

\* The variables of executePlugins.
execVars == <<plugins, mainpc, idx, semaphore, wg, mu, results, pc, left,
              err, ctxDone, timeLeft, warnings, output, h>>

vars == <<cfg, execVars, runVars>>


\* ------------------------------------------------------------ executePlugins
\* json.Unmarshal(stdout, &data) into PluginData: fails on anything that is
\* no JSON object; an absent key leaves the field at its zero value ("" for
\* the strings, a nil json.RawMessage, written <<>>, for data).
Unmarshal(out) ==
    [ok      |-> out.kind = "object",
     Name    |-> IF out.name = <<>> THEN "" ELSE out.name[1],
     Version |-> IF out.version = <<>> THEN "" ELSE out.version[1],
     Data    |-> out.data]

PluginData(c) ==
    LET d == Unmarshal(plugins[c].out)
    IN  [Name |-> d.Name, Version |-> d.Version, Data |-> d.Data]

\* A validation that does not look at the version.
ValidIgnoresVersion(d) == ~(d.Name = "" \/ d.Data = <<>>)

\* The test of part_003:570, negated: the envelope goes on to the merge.
Valid(d) == ~(d.Name = "" \/ d.Version = "" \/ d.Data = <<>>)

\* make(chan struct{}, maxParallel) panics on a negative size.
MakeChanPanics(n) == n < 0

\* A semaphore that never blocks (no admission gate).
SemNeverFull == FALSE

\* semaphore <- struct{}{} blocks while the channel's buffer is full (an
\* unbuffered channel, capacity 0, has no receiver here and blocks forever).
SemFull == semaphore >= cfg.maxParallel

\* A lock that is always granted (no mutual exclusion).
MuAlwaysFree == TRUE

\* mu.Lock() blocks while another goroutine holds the mutex.
MuFree == mu = 0

\* A wait that returns at once (no join).
WaitSkipped == TRUE

\* wg.Wait() returns when the counter is zero.
WaitDone == wg = 0

\* exec.Command(pPath): the child is not bound to the context.
CtxNeverKills(c) == FALSE

\* exec.CommandContext(ctx, pPath): the child is killed once ctx is done.
CtxKills(c) == ctxDone /\ pc[c] = "running"

\* cmd.Start returns ctx.Err() without starting anything when ctx is done.
CtxBlocksStart == ctxDone

\* A goroutine that runs the child again, up to --plugin-retries more times.
RetryAfterError(c) ==
    IF h.spawns[c] <= cfg.pluginRetries THEN "start" ELSE "release"

\* part_003:544-555: on an error of cmd.Output the goroutine logs and
\* returns; nothing reads cfg.pluginRetries.
AfterError(c) == "release"

\* A return that leaves the token in the gate.
ReturnKeepsToken(c) == "wgdone"

\* part_003:558-575: the returns after a parse failure and after a failed
\* validation run the deferred calls, <-semaphore (part_003:533) first.
AfterFailure(c) == "release"

\* A merge that forgets the entries already made (a lost update).
MapPutLossy(m, k, v) == [n \in {k} |-> v]

\* A merge that keeps the entry already made (first one wins).
MapPutFirstWins(m, k, v) ==
    [n \in DOMAIN m \cup {k} |-> IF n \in DOMAIN m THEN m[n] ELSE v]

\* results[data.Name] = data
MapPut(m, k, v) == [n \in DOMAIN m \cup {k} |-> IF n = k THEN v ELSE m[n]]

\* A warning on every merge in verbose mode, duplicate or not.
WarnOnEveryMerge(exists) == cfg.verbose

\* part_003:583: the duplicate is logged only in verbose mode ...
ShouldWarn(exists) == exists /\ cfg.verbose

\* ... through log.Printf, whose writer (verboseLogger.Write) drops the
\* line unless verbose is set.
LoggerWrite(n) == IF cfg.verbose THEN n + 1 ELSE n

\* part_003:181-185: the configuration when no flag is given.  Strings are
\* sequences of tokens, the empty string being <<>>.
Defaults ==
    [outputFormat        |-> "yaml",
     listPlugins         |-> FALSE,
     cacheDir            |-> <<>>,
     outputTokenBudget   |-> 0,
     thinkingTokenBudget |-> 0,
     costBudgetCents     |-> 0,
     allowedTools        |-> <<>>,
     pluginTimeout       |-> 0,
     pluginRetries       |-> 0,
     indent              |-> 2,
     summary             |-> FALSE,
     maxParallel         |-> 1,
     printSource         |-> FALSE,
     verbose             |-> FALSE]

\* The configurations explored; --plugin-retries keeps its default 0 here.
Configs ==
    {[Defaults EXCEPT !.maxParallel = p, !.pluginTimeout = t, !.verbose = v] :
        p \in -1..MaxParallel, t \in 0..MaxTimeout, v \in BOOLEAN}

\* run is inside executePlugins: the rest of the process is left out.
RunIdle ==
    /\ rpc = "execute"
    /\ environ = <<>>
    /\ now = 0
    /\ discovered = <<>>
    /\ sessionID = <<>>
    /\ pending = {}
    /\ finalEnv = <<>>
    /\ childEnv = <<>>
    /\ aggregate = {}
    /\ proc = [stdout |-> <<>>, stderr |-> <<>>, exit |-> -1, listed |-> <<>>]
    /\ hist = <<>>

\* The lists findPlugins may hand to executePlugins.
Discovered ==
    {f \in [Cands -> UNION {ProgramsOf(c) : c \in Cands}] :
        \A c \in Cands : f[c] \in ProgramsOf(c)}

\* The state in which run calls executePlugins, for a set of configurations
\* and a set of candidate lists.
InitFrom(cs, ps) ==
    /\ RunIdle
    /\ cfg \in cs
    /\ plugins \in ps
    /\ mainpc = "make"
    /\ idx = 1
    /\ semaphore = 0
    /\ wg = 0
    /\ mu = 0
    /\ results = <<>>
    /\ pc = [c \in Cands |-> "idle"]
    /\ left = [c \in Cands |-> 0]
    /\ err = [c \in Cands |-> "none"]
    /\ ctxDone = FALSE
    /\ timeLeft = cfg.pluginTimeout
    /\ warnings = 0
    /\ output = <<>>
    /\ h = [collisions |-> 0,
            lastLock   |-> <<>>,
            atFire     |-> [c \in Cands |-> "none"],
            waited     |-> FALSE,
            merged     |-> {},
            spawns     |-> [c \in Cands |-> 0],
            released   |-> [c \in Cands |-> 0]]

Init == InitFrom(Configs, Discovered)

\* Runs in which the first candidate prints any shape of envelope; the
\* children of the other candidates run for one tick.
ConfigsEnvelope ==
    {[Defaults EXCEPT !.maxParallel = p, !.pluginTimeout = t] :
        p \in {1, MaxParallel}, t \in {0, 1}}

DiscoveredEnvelope ==
    {[c \in Cands |-> IF c = 1 THEN p ELSE g[c]] :
        p \in ProgramsOf(1) \cup EnvelopePrograms(1),
        g \in {f \in Discovered : \A c \in Cands \ {1} : f[c].dur <= 1}}

InitEnvelope == InitFrom(ConfigsEnvelope, DiscoveredEnvelope)

\* part_003:521-526: results, wg, mu and the semaphore channel are made.
MakeSemaphore ==
    /\ mainpc = "make"
    /\ mainpc' = IF MakeChanPanics(cfg.maxParallel) THEN "panic" ELSE "loop"
    /\ UNCHANGED runVars
    /\ UNCHANGED <<cfg, plugins, idx, semaphore, wg, mu, results, pc, left,
                   err, ctxDone, timeLeft, warnings, output, h>>

\* part_003:529: wg.Add(1)
MainAdd ==
    /\ mainpc = "loop"
    /\ wg' = wg + 1
    /\ mainpc' = "acquire"
    /\ UNCHANGED runVars
    /\ UNCHANGED <<cfg, plugins, idx, semaphore, mu, results, pc, left, err,
                   ctxDone, timeLeft, warnings, output, h>>

\* part_003:530: semaphore <- struct{}{}
MainAcquire ==
    /\ mainpc = "acquire"
    /\ ~SemFull
    /\ semaphore' = semaphore + 1
    /\ mainpc' = "go"
    /\ UNCHANGED runVars
    /\ UNCHANGED <<cfg, plugins, idx, wg, mu, results, pc, left, err,
                   ctxDone, timeLeft, warnings, output, h>>

\* part_003:531: go func(pPath string) {...}(pluginPath), and the next
\* iteration of the loop or, after the last candidate, wg.Wait().
MainGo ==
    /\ mainpc = "go"
    /\ pc' = [pc EXCEPT ![idx] = "start"]
    /\ idx' = idx + 1
    /\ mainpc' = IF idx = NumPlugins THEN "wait" ELSE "loop"
    /\ UNCHANGED runVars
    /\ UNCHANGED <<cfg, plugins, semaphore, wg, mu, results, left, err,
                   ctxDone, timeLeft, warnings, output, h>>

\* part_003:591-592: wg.Wait(); return results
MainWait ==
    /\ mainpc = "wait"
    /\ WaitDone
    /\ mainpc' = "returned"
    /\ UNCHANGED runVars
    /\ UNCHANGED <<cfg, plugins, idx, semaphore, wg, mu, results, pc, left,
                   err, ctxDone, timeLeft, warnings, output, h>>

\* part_003:322: formatOutput(results, cfg) ranges over the map.
FormatOutput ==
    /\ mainpc = "returned"
    /\ output' = <<results>>
    /\ mainpc' = "exit"
    /\ UNCHANGED runVars
    /\ UNCHANGED <<cfg, plugins, idx, semaphore, wg, mu, results, pc, left,
                   err, ctxDone, timeLeft, warnings, h>>

\* part_003:541-543: cmd.Output() starts the child, or fails to.
Spawn(c) ==
    /\ pc[c] = "start"
    /\ IF CtxBlocksStart
         THEN /\ err' = [err EXCEPT ![c] = "ctx"]
              /\ pc' = [pc EXCEPT ![c] = "output"]
              /\ left' = left
         ELSE IF ~plugins[c].spawns
         THEN /\ err' = [err EXCEPT ![c] = "spawn"]
              /\ pc' = [pc EXCEPT ![c] = "output"]
              /\ left' = left
         ELSE /\ err' = err
              /\ pc' = [pc EXCEPT ![c] = "running"]
              /\ left' = [left EXCEPT ![c] = plugins[c].dur]
    /\ h' = [h EXCEPT !.spawns[c] = @ + 1]
    /\ UNCHANGED runVars
    /\ UNCHANGED <<cfg, plugins, mainpc, idx, semaphore, wg, mu, results,
                   ctxDone, timeLeft, warnings, output>>

\* The child exits by itself after its natural run time; cmd.Output returns
\* its standard output, and an *exec.ExitError on a non-zero status.
ChildExit(c) ==
    /\ pc[c] = "running"
    /\ left[c] = 0
    /\ err' = [err EXCEPT ![c] = IF plugins[c].exit = 0 THEN "nil" ELSE "exit"]
    /\ pc' = [pc EXCEPT ![c] = "output"]
    /\ UNCHANGED runVars
    /\ UNCHANGED <<cfg, plugins, mainpc, idx, semaphore, wg, mu, results,
                   left, ctxDone, timeLeft, warnings, output, h>>

\* The context is done: os/exec kills the child and cmd.Output returns an
\* error.
Kill(c) ==
    /\ CtxKills(c)
    /\ err' = [err EXCEPT ![c] = "killed"]
    /\ pc' = [pc EXCEPT ![c] = "output"]
    /\ UNCHANGED runVars
    /\ UNCHANGED <<cfg, plugins, mainpc, idx, semaphore, wg, mu, results,
                   left, ctxDone, timeLeft, warnings, output, h>>

\* part_003:545-575: the error, parse and validation returns.  Every return
\* runs the deferred calls, the semaphore release first.
Decode(c) ==
    /\ pc[c] = "output"
    /\ pc' = [pc EXCEPT ![c] =
                IF err[c] # "nil" THEN AfterError(c)
                ELSE IF ~Unmarshal(plugins[c].out).ok THEN AfterFailure(c)
                ELSE IF ~Valid(PluginData(c)) THEN AfterFailure(c)
                ELSE "lock"]
    /\ UNCHANGED runVars
    /\ UNCHANGED <<cfg, plugins, mainpc, idx, semaphore, wg, mu, results,
                   left, err, ctxDone, timeLeft, warnings, output, h>>

\* part_003:581-582: mu.Lock(); defer mu.Unlock()
Lock(c) ==
    /\ pc[c] = "lock"
    /\ MuFree
    /\ mu' = c
    /\ pc' = [pc EXCEPT ![c] = "check"]
    /\ h' = [h EXCEPT !.lastLock =
                [n \in DOMAIN @ \cup {PluginData(c).Name} |->
                    IF n = PluginData(c).Name THEN c ELSE @[n]]]
    /\ UNCHANGED runVars
    /\ UNCHANGED <<cfg, plugins, mainpc, idx, semaphore, wg, results, left,
                   err, ctxDone, timeLeft, warnings, output>>

\* part_003:583-585: the read of the map and the duplicate warning.
Check(c) ==
    /\ pc[c] = "check"
    /\ LET exists == PluginData(c).Name \in DOMAIN results
       IN  /\ warnings' = IF ShouldWarn(exists) THEN LoggerWrite(warnings)
                                                ELSE warnings
           /\ h' = [h EXCEPT !.collisions = IF exists THEN @ + 1 ELSE @]
    /\ pc' = [pc EXCEPT ![c] = "write"]
    /\ UNCHANGED runVars
    /\ UNCHANGED <<cfg, plugins, mainpc, idx, semaphore, wg, mu, results,
                   left, err, ctxDone, timeLeft, output>>

\* part_003:586: results[data.Name] = data
Write(c) ==
    /\ pc[c] = "write"
    /\ results' = MapPut(results, PluginData(c).Name, PluginData(c))
    /\ pc' = [pc EXCEPT ![c] = "unlock"]
    /\ h' = [h EXCEPT !.merged = @ \cup {c}]
    /\ UNCHANGED runVars
    /\ UNCHANGED <<cfg, plugins, mainpc, idx, semaphore, wg, mu, left, err,
                   ctxDone, timeLeft, warnings, output>>

\* part_003:582: the deferred mu.Unlock()
Unlock(c) ==
    /\ pc[c] = "unlock"
    /\ mu' = 0
    /\ pc' = [pc EXCEPT ![c] = "release"]
    /\ UNCHANGED runVars
    /\ UNCHANGED <<cfg, plugins, mainpc, idx, semaphore, wg, results, left,
                   err, ctxDone, timeLeft, warnings, output, h>>

\* part_003:533: the deferred <-semaphore
Release(c) ==
    /\ pc[c] = "release"
    /\ semaphore' = semaphore - 1
    /\ pc' = [pc EXCEPT ![c] = "wgdone"]
    /\ h' = [h EXCEPT !.released[c] = @ + 1]
    /\ UNCHANGED runVars
    /\ UNCHANGED <<cfg, plugins, mainpc, idx, wg, mu, results, left, err,
                   ctxDone, timeLeft, warnings, output>>

\* part_003:532: the deferred wg.Done()
WgDone(c) ==
    /\ pc[c] = "wgdone"
    /\ wg' = wg - 1
    /\ pc' = [pc EXCEPT ![c] = "done"]
    /\ UNCHANGED runVars
    /\ UNCHANGED <<cfg, plugins, mainpc, idx, semaphore, mu, results, left,
                   err, ctxDone, timeLeft, warnings, output, h>>

\* ---------------------------------------------------------------- time
\* part_003:309-310: context.WithTimeout arms one timer for the whole run.
TimerArmed == cfg.pluginTimeout > 0 /\ ~ctxDone

\* The deadline passes: the context's Done channel is closed.
Fire ==
    /\ TimerArmed
    /\ timeLeft = 0
    /\ ctxDone' = TRUE
    /\ h' = [h EXCEPT !.atFire =
                [c \in Cands |->
                    IF pc[c] \in {"idle", "start"} THEN "notstarted"
                    ELSE IF pc[c] = "running" /\ left[c] > 0 THEN "running"
                    ELSE "over"]]
    /\ UNCHANGED runVars
    /\ UNCHANGED <<cfg, plugins, mainpc, idx, semaphore, wg, mu, results,
                   pc, left, err, timeLeft, warnings, output>>

\* The main goroutine is blocked on the semaphore or in wg.Wait().
MainBlocked ==
    \/ mainpc = "acquire" /\ SemFull
    \/ mainpc = "wait" /\ ~WaitDone

\* One unit of time passes.  It does so only while the orchestrator has
\* nothing to do but wait: for a child, or for the deadline.
Tick ==
    /\ MainBlocked
    /\ \A c \in Cands : pc[c] \in {"idle", "running", "done"}
    /\ \A c \in Cands : pc[c] = "running" => left[c] > 0 /\ ~CtxKills(c)
    /\ ~(TimerArmed /\ timeLeft = 0)
    /\ (\E c \in Cands : pc[c] = "running") \/ TimerArmed
    /\ left' = [c \in Cands |-> IF pc[c] = "running" THEN left[c] - 1
                                                     ELSE left[c]]
    /\ timeLeft' = IF TimerArmed THEN timeLeft - 1 ELSE timeLeft
    /\ h' = [h EXCEPT !.waited = @ \/ ctxDone]
    /\ UNCHANGED runVars
    /\ UNCHANGED <<cfg, plugins, mainpc, idx, semaphore, wg, mu, results,
                   pc, err, ctxDone, warnings, output>>

Next ==
    \/ MakeSemaphore
    \/ MainAdd
    \/ MainAcquire
    \/ MainGo
    \/ MainWait
    \/ FormatOutput
    \/ \E c \in Cands : Spawn(c)
    \/ \E c \in Cands : ChildExit(c)
    \/ \E c \in Cands : Kill(c)
    \/ \E c \in Cands : Decode(c)
    \/ \E c \in Cands : Lock(c)
    \/ \E c \in Cands : Check(c)
    \/ \E c \in Cands : Write(c)
    \/ \E c \in Cands : Unlock(c)
    \/ \E c \in Cands : Release(c)
    \/ \E c \in Cands : WgDone(c)
    \/ Fire
    \/ Tick

Spec == Init /\ [][Next]_vars

SpecEnvelope == InitEnvelope /\ [][Next]_vars

\* Runs under every value of --plugin-retries up to MaxRetries.
ConfigsRetries ==
    {[Defaults EXCEPT !.maxParallel = p, !.pluginTimeout = t,
                      !.pluginRetries = r] :
        p \in {1, MaxParallel}, t \in 0..MaxTimeout, r \in 0..MaxRetries}

InitRetries == InitFrom(ConfigsRetries, Discovered)

SpecRetries == InitRetries /\ [][Next]_vars

\* ====================================================== run, outside the pool
\* Strings of the environment are sequences of tokens: a digit, a sign, a
\* path separator, a path element or a word.  The empty string is <<>>.
Digit == <<"0", "1", "2", "3", "4", "5", "6", "7", "8", "9">>
IsDigit(t) == \E i \in 1..10 : Digit[i] = t
DigitValue(t) == (CHOOSE i \in 1..10 : Digit[i] = t) - 1

\* Go's int, scaled down to IntBits bits, two's complement.
MaxInt == 2^(IntBits - 1) - 1
MinInt == -(2^(IntBits - 1))
WrapInt(x) == ((x + 2^(IntBits - 1)) % 2^IntBits) - 2^(IntBits - 1)

RECURSIVE ParseDigits(_, _)
ParseDigits(s, acc) ==
    IF s = <<>> THEN acc
    ELSE ParseDigits(Tail(s), acc * 10 + DigitValue(Head(s)))

\* strconv.Atoi: an optional sign and at least one decimal digit; a value
\* out of the range of int is an error (strconv.ErrRange).
Atoi(s) ==
    LET signed == s # <<>> /\ Head(s) \in {"+", "-"}
        body   == IF signed THEN Tail(s) ELSE s
        syntax == body # <<>> /\ \A i \in DOMAIN body : IsDigit(body[i])
        mag    == IF syntax THEN ParseDigits(body, 0) ELSE 0
        val    == IF signed /\ Head(s) = "-" THEN -mag ELSE mag
    IN  [err |-> ~syntax \/ val > MaxInt \/ val < MinInt, val |-> val]

RECURSIVE NatString(_)
NatString(n) ==
    IF n < 10 THEN <<Digit[n + 1]>>
    ELSE NatString(n \div 10) \o <<Digit[(n % 10) + 1]>>

\* strconv.Itoa (and %d, strconv.FormatInt(_, 10))
Itoa(n) == IF n < 0 THEN <<"-">> \o NatString(-n) ELSE NatString(n)

\* An entry "k=v" of the environment.
Entry(k, v) == [k |-> k, v |-> v]

\* os.LookupEnv and os.Getenv on the environment env (keys are unique).
LookupEnv(env, k) == \E i \in DOMAIN env : env[i].k = k
Getenv(env, k) ==
    IF LookupEnv(env, k) THEN env[CHOOSE i \in DOMAIN env : env[i].k = k].v
    ELSE <<>>

\* time.Time.Unix(): whole seconds of a time given in ticks.
Unix(t) == t \div TicksPerSecond

\* part_003:391-396
getSessionID(env, t) ==
    IF Getenv(env, "CTX_SESSION") # <<>> THEN Getenv(env, "CTX_SESSION")
    ELSE <<"ctx_">> \o Itoa(Unix(t))

\* part_003:399-409
getCurrentShlvl(env) ==
    LET levelStr == IF Getenv(env, "CTX_SHLVL") = <<>>
                      THEN Getenv(env, "SHLVL")
                      ELSE Getenv(env, "CTX_SHLVL")
        a == Atoi(levelStr)
    IN  IF a.err \/ a.val < 0 THEN 0 ELSE a.val

\* ------------------------------------------------------------ file system
\* filepath.Join of a directory (not the root) and a relative path.
Join(dir, rel) == dir \o <<"/">> \o rel

\* filepath.Clean, as far as the paths used here need it: a trailing
\* separator is dropped.
Clean(p) ==
    IF Len(p) > 1 /\ p[Len(p)] = "/" THEN SubSeq(p, 1, Len(p) - 1) ELSE p

\* filepath.Abs of a non-empty path; the working directory is the root.
Abs(p) == Clean(IF Head(p) = "/" THEN p ELSE <<"/">> \o p)

\* A directory entry: its name, whether it is a directory, whether one of
\* its execute bits is set.
File(name, isDir, exec) == [name |-> name, isDir |-> isDir, exec |-> exec]

\* os.Executable(): the running ctx binary, installed under a ctx- name.
Self == <<"/", "opt", "/", "ctx-", "self">>

\* os.ReadDir on the file system of the model, entries sorted by name.
\* /link is a symbolic link to /opt; any other directory cannot be read.
ReadDir(dir) ==
    IF dir = <<"/", "bin">> THEN
        [ok |-> TRUE,
         files |-> << File(<<"ctx-", "git">>, FALSE, TRUE),
                      File(<<"ctx-", "notes">>, FALSE, FALSE),
                      File(<<"ctx-", "work">>, TRUE, TRUE),
                      File(<<"ls">>, FALSE, TRUE) >>]
    ELSE IF dir \in {<<"/", "opt">>, <<"/", "link">>} THEN
        [ok |-> TRUE,
         files |-> << File(<<"ctx-", "self">>, FALSE, TRUE),
                      File(<<"ctx-", "time">>, FALSE, TRUE) >>]
    ELSE IF dir = <<"/", "empty">> THEN [ok |-> TRUE, files |-> <<>>]
    ELSE [ok |-> FALSE, files |-> <<>>]

\* The file a path names once symbolic links are followed: /link is /opt.
Resolve(p) ==
    IF Len(p) >= 2 /\ SubSeq(p, 1, 2) = <<"/", "link">>
        THEN <<"/", "opt">> \o SubSeq(p, 3, Len(p))
        ELSE p

\* filepath.SplitList: the elements between the ":" separators.
RECURSIVE SplitFrom(_, _, _)
SplitFrom(s, cur, acc) ==
    IF s = <<>> THEN Append(acc, cur)
    ELSE IF Head(s) = ":" THEN SplitFrom(Tail(s), <<>>, Append(acc, cur))
    ELSE SplitFrom(Tail(s), Append(cur, Head(s)), acc)

SplitList(s) == IF s = <<>> THEN <<>> ELSE SplitFrom(s, <<>>, <<>>)

\* part_003:362-385: the candidates of one directory.
CandidatesIn(absPath) ==
    LET files == ReadDir(absPath).files
        Keep(f) == /\ ~f.isDir
                   /\ Head(f.name) = "ctx-"
                   /\ Join(absPath, f.name) # Self
                   /\ f.exec
        kept == SelectSeq(files, Keep)
    IN  IF ~ReadDir(absPath).ok THEN <<>>
        ELSE [i \in 1..Len(kept) |-> Join(absPath, kept[i].name)]

\* A loop that never finds a directory in the map checked.
NeverChecked(absPath, checked) == FALSE

\* part_003:353-356: the directory was scanned before.
Checked(absPath, checked) == absPath \in checked

\* part_003:345-386: the loop over the elements of PATH; acc holds the
\* candidates found and the directories os.ReadDir was called on, in order.
RECURSIVE ScanPaths(_, _, _)
ScanPaths(paths, checked, acc) ==
    IF paths = <<>> THEN acc
    ELSE IF Head(paths) = <<>> THEN ScanPaths(Tail(paths), checked, acc)
    ELSE IF Checked(Abs(Head(paths)), checked)
        THEN ScanPaths(Tail(paths), checked, acc)
    ELSE ScanPaths(Tail(paths), checked \cup {Abs(Head(paths))},
                   [plugins |-> acc.plugins \o CandidatesIn(Abs(Head(paths))),
                    listed  |-> Append(acc.listed, Abs(Head(paths)))])

\* part_003:333-388
findPlugins(env) ==
    LET scan == ScanPaths(SplitList(Getenv(env, "PATH")), {},
                          [plugins |-> <<>>, listed |-> <<>>])
    IN  IF Getenv(env, "PATH") = <<>>
            THEN [err |-> TRUE, plugins |-> <<>>, listed |-> <<>>]
            ELSE [err |-> FALSE, plugins |-> scan.plugins, listed |-> scan.listed]

\* -------------------------------------------------------------- getPluginEnv
\* part_003:436-455: the cache directory handed to the plugins, "" if none.
CacheDirToSet(c, env) ==
    LET home == Getenv(env, "HOME")
        xdg  == IF Getenv(env, "XDG_CACHE_HOME") # <<>>
                  THEN Getenv(env, "XDG_CACHE_HOME")
                  ELSE IF home # <<>> THEN Join(home, <<".cache">>) ELSE <<>>
    IN  IF c.cacheDir # <<>> THEN Abs(c.cacheDir)
        ELSE IF xdg # <<>> THEN Join(xdg, <<"ctx">>)
        ELSE <<>>

\* part_003:480: int(cfg.pluginTimeout.Seconds())
TimeoutSec(c) == c.pluginTimeout \div TicksPerSecond

\* part_003:416-504: the entries getPluginEnv decides to set, as the set of
\* pairs <<key, value>> put into the map varsToSet.
SetPairs(c, env, sid, t) ==
    {<<"CTX_SESSION", sid>>,
     <<"CTX_SHLVL", Itoa(WrapInt(getCurrentShlvl(env) + 1))>>}
    \cup {<<k, Getenv(env, k)>> :
            k \in {a \in {"TRACEPARENT", "TRACESTATE"} : LookupEnv(env, a)}}
    \cup (IF CacheDirToSet(c, env) # <<>>
            THEN {<<"CTX_CACHE_DIR", CacheDirToSet(c, env)>>} ELSE {})
    \cup (IF c.outputTokenBudget > 0
            THEN {<<"CTX_OUTPUT_TOKEN_BUDGET", Itoa(c.outputTokenBudget)>>}
            ELSE {})
    \cup (IF c.thinkingTokenBudget > 0
            THEN {<<"CTX_THINKING_TOKEN_BUDGET", Itoa(c.thinkingTokenBudget)>>}
            ELSE {})
    \cup (IF c.costBudgetCents > 0
            THEN {<<"CTX_COST_BUDGET_CENTS", Itoa(c.costBudgetCents)>>}
            ELSE {})
    \cup (IF c.allowedTools # <<>>
            THEN {<<"CTX_ALLOWED_TOOLS", c.allowedTools>>} ELSE {})
    \cup (IF c.pluginTimeout > 0 /\ TimeoutSec(c) > 0
            THEN {<<"CTX_TIMEOUT_SECONDS", Itoa(TimeoutSec(c))>>,
                  <<"CTX_DEADLINE_TIMESTAMP", Itoa(Unix(t + c.pluginTimeout))>>}
            ELSE {})
    \cup (IF c.pluginRetries > 0
            THEN {<<"CTX_RETRY_MAX", Itoa(c.pluginRetries)>>} ELSE {})
    \cup (IF c.printSource THEN {<<"CTX_SHOW_SOURCE", <<"true">>>>} ELSE {})

\* The map varsToSet.
VarsToSet(c, env, sid, t) ==
    LET pairs == SetPairs(c, env, sid, t)
    IN  [k \in {p[1] : p \in pairs} |-> (CHOOSE p \in pairs : p[1] = k)[2]]

\* A filter that lets an inherited CTX_SESSION through.
ManagedKeysNoSession(c, env, sid, t) ==
    (DOMAIN VarsToSet(c, env, sid, t) \ {"CTX_SESSION"})
    \cup {"SHLVL", "TRACEPARENT", "TRACESTATE"}

\* The map managedKeys: the session, both counters and the ambient keys in
\* any case, every other key only when it is set.
ManagedKeys(c, env, sid, t) ==
    DOMAIN VarsToSet(c, env, sid, t) \cup {"SHLVL", "TRACEPARENT", "TRACESTATE"}

\* part_003:506-513: the inherited entries whose key is not managed.
FilterEnv(c, env, sid, t) ==
    LET Keep(e) == e.k \notin ManagedKeys(c, env, sid, t)
    IN  SelectSeq(env, Keep)

\* ------------------------------------------------------------- formatOutput
\* An indentation that --summary does not switch off.
IndentIgnoresSummary(c) == IF c.indent > 0 THEN c.indent ELSE 0

\* part_003:613-618: the length of indentStr, the run of spaces every level
\* of nesting is indented by; 0 is the empty string.
IndentStr(c) == IF ~c.summary /\ c.indent > 0 THEN c.indent ELSE 0

\* part_003:596-668, as far as the shape of the output goes: the format,
\* the session_id attribute of the XML root, whether Marshal (compact, on
\* one line) or MarshalIndent wrote it, the indentation and the plugins
\* shown.
formatOutput(agg, c, env) ==
    [format     |-> IF c.outputFormat \in {"json", "xml"}
                      THEN c.outputFormat ELSE "yaml",
     session_id |-> IF c.outputFormat = "xml"
                      THEN <<Getenv(env, "CTX_SESSION")>> ELSE <<>>,
     compact    |-> c.outputFormat \in {"json", "xml"} /\ IndentStr(c) = 0,
     indent     |-> IF c.outputFormat \in {"json", "xml"}
                      THEN IndentStr(c) ELSE 0,
     plugins    |-> agg]

\* The set of elements of a sequence.
Range(s) == {s[i] : i \in DOMAIN s}

\* ------------------------------------------------------------------- actions
\* part_003:258-264, 274-284: findPlugins and the branches that follow it.
RunFindPlugins ==
    /\ rpc = "find"
    /\ LET r == findPlugins(environ)
       IN  /\ discovered' = r.plugins
           /\ proc' = [proc EXCEPT !.listed = r.listed]
           /\ rpc' = IF r.err THEN "fatal"
                     ELSE IF cfg.listPlugins THEN "list"
                     ELSE IF Len(r.plugins) = 0 THEN "empty"
                     ELSE "session"
    /\ UNCHANGED <<cfg, execVars, environ, now, sessionID, pending, finalEnv,
                   childEnv, aggregate, hist>>

\* part_003:174-176: log.Fatalf writes through the logger main installed,
\* whose writer drops everything unless -v is given, and exits with 1.
MainFatal ==
    /\ rpc = "fatal"
    /\ proc' = [proc EXCEPT
                  !.stderr = IF cfg.verbose
                               THEN Append(@, "Error: failed to discover plugins")
                               ELSE @,
                  !.exit = 1]
    /\ rpc' = "exited"
    /\ UNCHANGED <<cfg, execVars, environ, now, discovered, sessionID,
                   pending, finalEnv, childEnv, aggregate, hist>>

\* part_003:274-283: --list-plugins prints the paths and returns nil.
RunList ==
    /\ rpc = "list"
    /\ proc' = [proc EXCEPT !.stdout = Append(@, [list |-> discovered]),
                            !.exit = 0]
    /\ rpc' = "exited"
    /\ UNCHANGED <<cfg, execVars, environ, now, discovered, sessionID,
                   pending, finalEnv, childEnv, aggregate, hist>>

\* part_003:285-293: nothing to run, the empty aggregate is printed.
RunEmpty ==
    /\ rpc = "empty"
    /\ proc' = [proc EXCEPT !.stdout = Append(@, formatOutput({}, cfg, environ)),
                            !.exit = 0]
    /\ rpc' = "exited"
    /\ UNCHANGED <<cfg, execVars, environ, now, discovered, sessionID,
                   pending, finalEnv, childEnv, aggregate, hist>>

\* part_003:299: sessionID := getSessionID()
RunSession ==
    /\ rpc = "session"
    /\ sessionID' = getSessionID(environ, now)
    /\ rpc' = "env"
    /\ UNCHANGED <<cfg, execVars, environ, now, discovered, pending, finalEnv,
                   childEnv, aggregate, proc, hist>>

\* part_003:412-513: getPluginEnv up to the end of the filter loop.
RunEnvFilter ==
    /\ rpc = "env"
    /\ finalEnv' = FilterEnv(cfg, environ, sessionID, now)
    /\ pending' = DOMAIN VarsToSet(cfg, environ, sessionID, now)
    /\ rpc' = "range"
    /\ UNCHANGED <<cfg, execVars, environ, now, discovered, sessionID,
                   childEnv, aggregate, proc, hist>>

\* part_003:514-516: one iteration of the range over the map varsToSet; the
\* order of a range over a map is not specified.
RunEnvRange(k) ==
    /\ rpc = "range"
    /\ k \in pending
    /\ finalEnv' = Append(finalEnv,
                     Entry(k, VarsToSet(cfg, environ, sessionID, now)[k]))
    /\ pending' = pending \ {k}
    /\ UNCHANGED <<cfg, execVars, rpc, environ, now, discovered, sessionID,
                   childEnv, aggregate, proc, hist>>

\* part_003:316, 537-539: executePlugins gives every candidate the slice
\* pluginEnv as cmd.Env; any subset of the candidates ends up merged.
RunExecute ==
    /\ rpc = "range"
    /\ pending = {}
    /\ childEnv' = [i \in 1..Len(discovered) |-> finalEnv]
    /\ aggregate' \in SUBSET Range(discovered)
    /\ rpc' = "format"
    /\ UNCHANGED <<cfg, execVars, environ, now, discovered, sessionID,
                   pending, finalEnv, proc, hist>>

\* part_003:322-328: the aggregate is formatted and printed.
RunFormat ==
    /\ rpc = "format"
    /\ proc' = [proc EXCEPT
                  !.stdout = Append(@, formatOutput(aggregate, cfg, environ)),
                  !.exit = 0]
    /\ rpc' = "exited"
    /\ UNCHANGED <<cfg, execVars, environ, now, discovered, sessionID,
                   pending, finalEnv, childEnv, aggregate, hist>>

\* What the properties keep of an invocation that is over.
\* Of the invocations before the last one the composed environment is not
\* kept.
Forget(hs) == [n \in DOMAIN hs |-> [hs[n] EXCEPT !.env = <<>>]]

Summary(next) ==
    [start    |-> now,
     executed |-> childEnv # <<>>,
     fresh    |-> Getenv(environ, "CTX_SESSION") = <<>>,
     session  |-> sessionID,
     env      |-> finalEnv,
     next     |-> next]

\* The same command is started once more, from the same shell.
RunAgain ==
    /\ rpc = "exited"
    /\ Len(hist) + 1 < MaxInvocations
    /\ hist' = Append(Forget(hist), Summary("again"))
    /\ rpc' = "find"
    /\ discovered' = <<>>
    /\ sessionID' = <<>>
    /\ finalEnv' = <<>>
    /\ childEnv' = <<>>
    /\ aggregate' = {}
    /\ proc' = [stdout |-> <<>>, stderr |-> <<>>, exit |-> -1, listed |-> <<>>]
    /\ UNCHANGED <<cfg, execVars, environ, now, pending>>

\* part_003:537-539: the i-th candidate has been started with the slice
\* pluginEnv as its environment and runs ctx again, with the same flags:
\* the invocation that follows is that of the candidate.
RunNested(i) ==
    /\ rpc = "exited"
    /\ Len(hist) + 1 < MaxInvocations
    /\ i \in DOMAIN childEnv
    /\ hist' = Append(Forget(hist), Summary("nested"))
    /\ environ' = childEnv[i]
    /\ rpc' = "find"
    /\ discovered' = <<>>
    /\ sessionID' = <<>>
    /\ finalEnv' = <<>>
    /\ childEnv' = <<>>
    /\ aggregate' = {}
    /\ proc' = [stdout |-> <<>>, stderr |-> <<>>, exit |-> -1, listed |-> <<>>]
    /\ UNCHANGED <<cfg, execVars, now, pending>>

\* Time passes while no ctx process runs.
ClockTick ==
    /\ rpc = "find"
    /\ now < MaxNow
    /\ now' = now + 1
    /\ UNCHANGED <<cfg, execVars, rpc, environ, discovered, sessionID,
                   pending, finalEnv, childEnv, aggregate, proc, hist>>

NextRun ==
    \/ RunFindPlugins
    \/ MainFatal
    \/ RunList
    \/ RunEmpty
    \/ RunSession
    \/ RunEnvFilter
    \/ \E k \in pending : RunEnvRange(k)
    \/ RunExecute
    \/ RunFormat
    \/ ClockTick

\* Invocations that follow one another: the same command again, or ctx run
\* by one of its candidates.
NextChain ==
    \/ NextRun
    \/ RunAgain
    \/ \E i \in DOMAIN childEnv : RunNested(i)

\* ------------------------------------------------------------ initial states
\* executePlugins is summarised by RunExecute: its variables stay put.
ExecIdle ==
    /\ plugins = <<>>
    /\ mainpc = "idle"
    /\ idx = 1
    /\ semaphore = 0
    /\ wg = 0
    /\ mu = 0
    /\ results = <<>>
    /\ pc = [c \in Cands |-> "idle"]
    /\ left = [c \in Cands |-> 0]
    /\ err = [c \in Cands |-> "none"]
    /\ ctxDone = FALSE
    /\ timeLeft = 0
    /\ warnings = 0
    /\ output = <<>>
    /\ h = [collisions |-> 0,
            lastLock   |-> <<>>,
            atFire     |-> [c \in Cands |-> "none"],
            waited     |-> FALSE,
            merged     |-> {},
            spawns     |-> [c \in Cands |-> 0],
            released   |-> [c \in Cands |-> 0]]

\* No entry, or one entry of key k with a value of vs.
Opt(k, vs) == {<<>>} \cup {<<Entry(k, v)>> : v \in vs}

\* PATH=/bin:/opt, the search path of the runs that are not about discovery.
PathBinOpt == <<"/", "bin", ":", "/", "opt">>

\* Values of PATH: empty; one directory; two; one directory named twice
\* (once relative, with a trailing separator) around an empty element; a
\* directory that cannot be read; an empty one and an unreadable one; a
\* directory and a symbolic link to it.
PathValues ==
    {<<>>,
     <<"/", "bin">>,
     PathBinOpt,
     <<"/", "bin", ":", ":", "bin", "/">>,
     <<"/", "none">>,
     <<"/", "empty", ":", "/", "none">>,
     <<"/", "link", ":", "/", "opt">>}

\* Values of an inherited CTX_SHLVL: empty, no number, negative, zero, one,
\* signed, one below the largest int, the largest int and one past it.
LevelStrings ==
    {<<>>, <<"x">>, <<"-", "1">>, <<"0">>, <<"1">>, <<"+", "2">>,
     Itoa(MaxInt - 1), Itoa(MaxInt), Itoa(MaxInt + 1)}

\* Values of the shell's SHLVL.
ShellLevels == {<<>>, <<"x">>, <<"2">>, Itoa(MaxInt)}

\* Runs about discovery: PATH unset or any of PathValues.
EnvironsDiscovery ==
    {p \o s : p \in Opt("PATH", PathValues),
              s \in Opt("CTX_SESSION", {<<"s", "1">>})}

ConfigsDiscovery ==
    {[Defaults EXCEPT !.verbose = v, !.listPlugins = l, !.outputFormat = f] :
        v \in BOOLEAN, l \in BOOLEAN, f \in {"yaml", "xml"}}

\* Runs about the session and the nesting counter.
EnvironsSession ==
    {<<Entry("PATH", PathBinOpt)>> \o s \o a \o b :
        s \in Opt("CTX_SESSION", {<<>>, <<"s", "1">>}),
        a \in Opt("CTX_SHLVL", LevelStrings),
        b \in Opt("SHLVL", ShellLevels)}

ConfigsSession ==
    {[Defaults EXCEPT !.outputFormat = f] : f \in {"yaml", "json", "xml"}}

\* Keys getPluginEnv may set, next to the session and the counter.
FlagKeys ==
    {"CTX_CACHE_DIR", "CTX_OUTPUT_TOKEN_BUDGET", "CTX_THINKING_TOKEN_BUDGET",
     "CTX_COST_BUDGET_CENTS", "CTX_ALLOWED_TOOLS", "CTX_TIMEOUT_SECONDS",
     "CTX_DEADLINE_TIMESTAMP", "CTX_RETRY_MAX", "CTX_SHOW_SOURCE"}

\* The value of an entry left in the environment by somebody else.
Stale == <<"stale">>

\* Runs about the managed keys: an unmanaged LANG and at most one entry
\* left over under a key ctx manages; no home directory is known.
EnvironsManaged ==
    {<<Entry("PATH", PathBinOpt), Entry("LANG", <<"C">>)>> \o s :
        s \in UNION {Opt(k, {Stale}) : k \in FlagKeys}}

\* Runs about the trace context: TRACEPARENT, TRACESTATE, both or neither.
EnvironsTrace ==
    {<<Entry("PATH", PathBinOpt), Entry("LANG", <<"C">>)>> \o a \o b :
        a \in Opt("TRACEPARENT", {<<"00-", "trace">>}),
        b \in Opt("TRACESTATE", {<<"vendor">>})}

\* Runs about the cache directory: HOME, XDG_CACHE_HOME, both or neither,
\* with or without an inherited CTX_CACHE_DIR.
EnvironsCache ==
    {<<Entry("PATH", PathBinOpt)>> \o d \o x \o s :
        d \in Opt("HOME", {<<"/", "home">>}),
        x \in Opt("XDG_CACHE_HOME", {<<"/", "xdg">>}),
        s \in Opt("CTX_CACHE_DIR", {Stale})}

ConfigsCache ==
    {Defaults,
     [Defaults EXCEPT !.cacheDir = <<"/", "c">>],
     [Defaults EXCEPT !.cacheDir = <<"c">>]}

\* Runs about the shape of the output: every format, with and without
\* --summary, for an --indent that is negative, zero, the default or wider.
IndentWidths == {-1, 0, 2, 4}

ConfigsFormat ==
    {[Defaults EXCEPT !.outputFormat = f, !.summary = b, !.indent = n] :
        f \in {"yaml", "json", "xml"}, b \in BOOLEAN, n \in IndentWidths}

\* The defaults, and every flag that reaches the environment set alone.
ConfigsManaged ==
    {Defaults,
     [Defaults EXCEPT !.cacheDir = <<"/", "c">>],
     [Defaults EXCEPT !.cacheDir = <<"c">>],
     [Defaults EXCEPT !.outputTokenBudget = 3],
     [Defaults EXCEPT !.thinkingTokenBudget = 2],
     [Defaults EXCEPT !.costBudgetCents = 1],
     [Defaults EXCEPT !.allowedTools = <<"git">>],
     [Defaults EXCEPT !.pluginTimeout = 1],
     [Defaults EXCEPT !.pluginTimeout = TicksPerSecond],
     [Defaults EXCEPT !.pluginTimeout = 2 * TicksPerSecond + 1],
     [Defaults EXCEPT !.pluginRetries = 2],
     [Defaults EXCEPT !.pluginRetries = -1],
     [Defaults EXCEPT !.costBudgetCents = -2],
     [Defaults EXCEPT !.printSource = TRUE]}

\* The state in which main is entered, at time 0.
InitRun ==
    /\ ExecIdle
    /\ \/ cfg \in ConfigsDiscovery /\ environ \in EnvironsDiscovery
       \/ cfg \in ConfigsSession /\ environ \in EnvironsSession
       \/ cfg \in ConfigsManaged /\ environ \in EnvironsManaged
       \/ cfg \in ConfigsCache /\ environ \in EnvironsCache
       \/ cfg = Defaults /\ environ \in EnvironsTrace
       \/ cfg \in ConfigsFormat /\ environ = <<Entry("PATH", PathBinOpt)>>
    /\ rpc = "find"
    /\ now = 0
    /\ discovered = <<>>
    /\ sessionID = <<>>
    /\ pending = {}
    /\ finalEnv = <<>>
    /\ childEnv = <<>>
    /\ aggregate = {}
    /\ proc = [stdout |-> <<>>, stderr |-> <<>>, exit |-> -1, listed |-> <<>>]
    /\ hist = <<>>

SpecRun == InitRun /\ [][NextRun]_vars

\* Chains of invocations start from the runs about discovery and about the
\* session and the nesting counter.
InitChain ==
    /\ InitRun
    /\ \/ cfg \in ConfigsDiscovery /\ environ \in EnvironsDiscovery
       \/ cfg \in ConfigsSession /\ environ \in EnvironsSession

SpecChain == InitChain /\ [][NextChain]_vars


\* ================================================================ properties
Returned == mainpc \in {"returned", "exit"}

\* The candidate's child exited with status 0 and its output passed the
\* parse and the validation.
Succeeded(c) ==
    /\ err[c] = "nil"
    /\ Unmarshal(plugins[c].out).ok
    /\ Valid(PluginData(c))

\* cmd.Output returned an error: spawn error, non-zero exit or cancellation.
Failed(c) == err[c] \in {"spawn", "exit", "ctx", "killed"}

\* The candidate is in the merge section of part_003:581-586.
InMerge(c) == pc[c] \in {"check", "write", "unlock"}

\* No entry of the map comes from candidate c (its payload is c).
NoEntryOf(c) == \A n \in DOMAIN results : results[n].Data # <<c>>

\* Children that were spawned and have not finished.
InFlight == {c \in Cands : pc[c] = "running"}

\* Ticks the child of c has run: none before it is spawned.
Ran(c) == IF pc[c] \in {"idle", "start"} \/ err[c] \in {"spawn", "ctx"}
            THEN 0 ELSE plugins[c].dur - left[c]

\* --- C1 -------------------------------------------------------------------
AllSucceededDistinct ==
    /\ \A c \in Cands : Succeeded(c)
    /\ \A c, d \in Cands : c # d => PluginData(c).Name # PluginData(d).Name

\* C1: when all N candidates exit successfully with valid envelopes under
\* pairwise distinct names, the map executePlugins returns has exactly N
\* entries, the one under each candidate's name being that candidate's
\* envelope, whatever the interleaving and the concurrency limit.
C1_DistinctValidAllMerged ==
    (Returned /\ AllSucceededDistinct) =>
        /\ Cardinality(DOMAIN results) = NumPlugins
        /\ \A c \in Cands :
              /\ PluginData(c).Name \in DOMAIN results
              /\ results[PluginData(c).Name] = PluginData(c)

C1_Witness ==
    /\ Returned
    /\ AllSucceededDistinct
    /\ cfg.maxParallel = MaxParallel
    /\ Cardinality(DOMAIN results) = NumPlugins

\* --- C2 -------------------------------------------------------------------
\* C2: at every moment the number of children spawned and not yet finished
\* is at most maxParallel (none at all when the limit is not positive), so
\* with the default limit 1 no two children overlap.
C2_InFlightBounded ==
    \/ InFlight = {}
    \/ Cardinality(InFlight) <= cfg.maxParallel

C2_Witness ==
    /\ cfg.maxParallel = 2
    /\ Cardinality(InFlight) = 2

\* --- C3 -------------------------------------------------------------------
\* C3: for every candidate set and every concurrency limit executePlugins
\* returns, every candidate having been run and having produced its one
\* outcome: the run can stop only after the return, with every goroutine
\* finished.
C3_AlwaysReturns ==
    (~ENABLED Next) =>
        /\ mainpc = "exit"
        /\ \A c \in Cands : pc[c] = "done" /\ err[c] # "none"

\* --- C4 -------------------------------------------------------------------
RECURSIVE SumDur(_)
SumDur(S) ==
    IF S = {} THEN 0
    ELSE LET c == CHOOSE x \in S : TRUE
         IN  plugins[c].dur + SumDur(S \ {c})

\* The candidate's program, left alone, ends in a valid envelope.
NaturallyValid(c) ==
    /\ plugins[c].spawns
    /\ plugins[c].exit = 0
    /\ Unmarshal(plugins[c].out).ok
    /\ Valid(PluginData(c))

\* The aggregates the candidates of S can produce when each runs to its
\* natural end: one entry per name reported by a valid candidate, holding
\* the envelope of one of the candidates reporting it.
WouldProduce(S) ==
    LET V == {c \in S : NaturallyValid(c)}
        N == {PluginData(c).Name : c \in V}
    IN  {[n \in N |-> PluginData(f[n])] :
            f \in {g \in [N -> V] : \A n \in N : PluginData(g[n]).Name = n}}

\* The candidates of S, run without x, all reach their natural end: there
\* is no deadline, or even run one after the other they end before it.
EndsBeforeDeadline(S) ==
    cfg.pluginTimeout = 0 \/ SumDur(S) < cfg.pluginTimeout

\* C4: a candidate that fails (non-zero exit, spawn error, cancellation)
\* contributes no entry, and the aggregate returned is one the other
\* candidates would have produced without it.
C4_FailureIsolated ==
    Returned =>
        \A x \in Cands : Failed(x) =>
            /\ NoEntryOf(x)
            /\ EndsBeforeDeadline(Cands \ {x}) =>
                  results \in WouldProduce(Cands \ {x})

\* --- C5 -------------------------------------------------------------------
\* C5: once the deadline has fired, every candidate whose child was running
\* then (with run time still ahead of it) is killed and contributes nothing,
\* every candidate not yet started fails at its start and contributes
\* nothing, and no time passes waiting for a child before the return.
C5_DeadlineCancelsAll ==
    ctxDone =>
        /\ \A c \in Cands : h.atFire[c] = "running" =>
              /\ pc[c] = "running" \/ err[c] = "killed"
              /\ ~InMerge(c) /\ pc[c] # "lock"
              /\ NoEntryOf(c)
        /\ \A c \in Cands : h.atFire[c] = "notstarted" =>
              /\ pc[c] # "running"
              /\ err[c] \in {"none", "ctx"}
              /\ ~InMerge(c) /\ pc[c] # "lock"
              /\ NoEntryOf(c)
        /\ ~h.waited

C5_Witness ==
    /\ mainpc = "returned"
    /\ ctxDone
    /\ \E c \in Cands : h.atFire[c] = "running" /\ err[c] = "killed"
    /\ \E c \in Cands : h.atFire[c] = "notstarted" /\ err[c] = "ctx"

\* --- C6 -------------------------------------------------------------------
\* C6: the plugin timeout bounds each plugin's own execution: a child is
\* cancelled by the timeout only when it has itself run for the timeout.
C6_TimeoutIsPerPlugin ==
    \A c \in Cands : err[c] = "killed" => Ran(c) >= cfg.pluginTimeout

\* --- C7 -------------------------------------------------------------------
\* C7: executePlugins has returned only when every goroutine it started has
\* finished, and the map formatOutput read is the map as it stays: nothing
\* writes to it after the return.
C7_JoinBeforeReturn ==
    /\ Returned => \A c \in Cands : pc[c] = "done"
    /\ output # <<>> => output[1] = results

C7_Witness ==
    /\ mainpc = "exit"
    /\ cfg.maxParallel = 2
    /\ Cardinality(DOMAIN results) = 2
    /\ output[1] = results

\* --- C8 -------------------------------------------------------------------
\* C8: at most one goroutine is in the section that reads and writes the
\* map, and it holds the mutex there.
C8_MergeMutex ==
    /\ Cardinality({c \in Cands : InMerge(c)}) <= 1
    /\ \A c \in Cands : InMerge(c) => mu = c

\* One goroutine writes the map while another runs its child.
C8_Witness ==
    \E c, d \in Cands : c # d /\ pc[c] = "write" /\ pc[d] = "running"

\* --- C9 -------------------------------------------------------------------
\* C9: the map returned holds, under every name that was merged, the
\* envelope of the candidate that took the mutex last for that name.
C9_LastLockWins ==
    Returned =>
        /\ DOMAIN results = DOMAIN h.lastLock
        /\ \A n \in DOMAIN results : results[n] = PluginData(h.lastLock[n])

\* Two candidates reported one name, and the first discovered merged last.
C9_Witness ==
    /\ Returned
    /\ h.collisions >= 1
    /\ \E n \in DOMAIN results : results[n].Data = <<1>>

\* --- C10 ------------------------------------------------------------------
\* C10 as claimed: every merge that finds its name present records a
\* warning, whatever the logging configuration.
C10_EveryCollisionWarned == warnings = h.collisions

\* C10 as amended: every merge that finds its name present records a
\* warning when verbose logging is on; when it is off none is recorded.
C10_CollisionWarnedIffVerbose ==
    warnings = IF cfg.verbose THEN h.collisions ELSE 0

C10_Witness ==
    /\ cfg.verbose
    /\ h.collisions >= 1
    /\ warnings = h.collisions

\* --- C11 ------------------------------------------------------------------
\* The child's output is one JSON object that has a non-empty name, a
\* non-empty version and a data key (read off the bytes the child printed).
EnvelopeComplete(c) ==
    LET out == plugins[c].out
    IN  /\ out.kind = "object"
        /\ out.name # <<>> /\ out.name[1] # ""
        /\ out.version # <<>> /\ out.version[1] # ""
        /\ out.data # <<>>

\* C11: a candidate whose child exited with status 0 is merged if and only
\* if its output is one envelope with a non-empty name, a non-empty version
\* and a data field that is present (the empty object counts as present);
\* an envelope missing any of the three is left out, and the run goes on to
\* its normal exit: it can stop nowhere else.
C11_MergedIffCompleteEnvelope ==
    /\ \A c \in Cands :
          (pc[c] = "done" /\ err[c] = "nil") =>
              (c \in h.merged <=> EnvelopeComplete(c))
    /\ ~ENABLED Next => mainpc = "exit"

C11_Witness ==
    /\ mainpc = "exit"
    /\ err[1] = "nil" /\ err[2] = "nil"
    /\ plugins[1].out.data = <<EmptyObject>> /\ 1 \in h.merged
    /\ plugins[2].out.kind = "object" /\ plugins[2].out.data = <<>>
    /\ 2 \notin h.merged

\* --- C14 ------------------------------------------------------------------
\* C14: whatever --plugin-retries is and however the child ends (spawn
\* error, non-zero exit, kill, bad output), cmd.Output is called at most
\* once for each candidate in a run, and exactly once by the time its
\* goroutine is done.
C14_SpawnedAtMostOnce ==
    \A c \in Cands :
        /\ h.spawns[c] <= 1
        /\ pc[c] = "done" => h.spawns[c] = 1

C14_Witness ==
    /\ mainpc = "exit"
    /\ cfg.pluginRetries = MaxRetries
    /\ \E c \in Cands : err[c] = "exit" /\ h.spawns[c] = 1
    /\ \E c \in Cands : err[c] = "spawn" /\ h.spawns[c] = 1

\* --- C12 ------------------------------------------------------------------
\* C12: discovery having succeeded, no failure of a candidate (spawn error,
\* non-zero exit, kill, bad output, incomplete envelope), not even the
\* failure of all of them, makes the run fail: the run can only end at its
\* normal exit, having printed the aggregate executePlugins returned, which
\* holds the merged envelopes and nothing else.
C12_CandidateFailuresNeverFailRun ==
    (~ENABLED Next) =>
        /\ mainpc = "exit"
        /\ output = <<results>>
        /\ \A c \in Cands : ~Succeeded(c) => NoEntryOf(c)

\* --- C13 ------------------------------------------------------------------
\* The process is over.
Exited == rpc = "exited"

\* C13: when PATH is unset or empty the process ends with a non-zero status,
\* a message on standard error and no candidate run; when PATH is not empty
\* the process ends with status 0, even if no candidate is found because
\* its directories are empty or cannot be read.
C13_EmptyPathFailsWithMessage ==
    Exited =>
        IF Getenv(environ, "PATH") = <<>>
            THEN /\ proc.exit # 0
                 /\ proc.stderr # <<>>
                 /\ childEnv = <<>>
            ELSE proc.exit = 0

\* --- C15 ------------------------------------------------------------------
\* The entries of the environment given to the i-th candidate under key k.
EntriesOf(i, k) == {j \in DOMAIN childEnv[i] : childEnv[i][j].k = k}

\* C15: a candidate's environment has an entry under a budget,
\* allowed-tools, timeout, deadline, retry, show-source or cache-directory
\* key only if ctx sets that key in this run: an entry inherited under such
\* a key never reaches a candidate.
C15_ManagedKeysNeverInherited ==
    \A i \in DOMAIN childEnv : \A k \in FlagKeys :
        EntriesOf(i, k) # {} =>
            /\ k \in DOMAIN VarsToSet(cfg, environ, sessionID, now)
            /\ \A j \in EntriesOf(i, k) :
                  childEnv[i][j].v = VarsToSet(cfg, environ, sessionID, now)[k]

\* --- C16 ------------------------------------------------------------------
\* C16: the environment of every candidate has exactly one CTX_SESSION
\* entry, its value is not empty, it is the inherited identifier when the
\* environment of ctx carries one, and all candidates of the run get the
\* same value.
C16_OneSessionEntry ==
    \A i \in DOMAIN childEnv :
        /\ Cardinality(EntriesOf(i, "CTX_SESSION")) = 1
        /\ Getenv(childEnv[i], "CTX_SESSION") # <<>>
        /\ Getenv(environ, "CTX_SESSION") # <<>> =>
              Getenv(childEnv[i], "CTX_SESSION") = Getenv(environ, "CTX_SESSION")
        /\ \A j \in DOMAIN childEnv :
              Getenv(childEnv[i], "CTX_SESSION") = Getenv(childEnv[j], "CTX_SESSION")

C16_Witness ==
    /\ Exited
    /\ Len(childEnv) >= 2
    /\ hist # <<>>
    /\ Getenv(environ, "CTX_SESSION") = <<"s", "1">>
    /\ Getenv(childEnv[2], "CTX_SESSION") = <<"s", "1">>

\* --- C17 ------------------------------------------------------------------
\* C17: an invocation that does not inherit a session identifier mints one
\* that differs from the one minted by any earlier invocation that did not
\* inherit one either, whenever the two were started.
C17_MintedSessionsDiffer ==
    (childEnv # <<>> /\ Getenv(environ, "CTX_SESSION") = <<>>) =>
        \A n \in DOMAIN hist :
            (hist[n].executed /\ hist[n].fresh) => hist[n].session # sessionID

\* --- C18 ------------------------------------------------------------------
\* C18: with --output xml the session_id attribute of the root element is
\* the value of CTX_SESSION the candidates of the run were given.
C18_XmlSessionIsRunSession ==
    (Exited /\ childEnv # <<>> /\ cfg.outputFormat = "xml") =>
        proc.stdout[1].session_id = <<Getenv(childEnv[1], "CTX_SESSION")>>

\* --- C19 ------------------------------------------------------------------
\* A string is a counter when it is a decimal number that is not negative.
IsCounter(s) == ~Atoi(s).err /\ Atoi(s).val >= 0

\* The counter ctx finds: CTX_SHLVL, SHLVL when that is unset or empty, and
\* zero when the one it reads is no counter.
ExistingCounter ==
    LET own  == Getenv(environ, "CTX_SHLVL")
        read == IF own # <<>> THEN own ELSE Getenv(environ, "SHLVL")
    IN  IF IsCounter(read) THEN Atoi(read).val ELSE 0

\* C19: every candidate gets exactly one CTX_SHLVL entry, the decimal form
\* of one plus the counter ctx found, and no SHLVL entry.
C19_CounterIsExistingPlusOne ==
    \A i \in DOMAIN childEnv :
        /\ Cardinality(EntriesOf(i, "CTX_SHLVL")) = 1
        /\ Getenv(childEnv[i], "CTX_SHLVL") = Itoa(ExistingCounter + 1)
        /\ EntriesOf(i, "SHLVL") = {}

\* --- C20 ------------------------------------------------------------------
\* C20: the candidates get CTX_SHLVL=1 when ctx itself has no CTX_SHLVL,
\* whatever else its environment holds, and the inherited CTX_SHLVL plus
\* one when it has one.
C20_TopLevelGivesOne ==
    \A i \in DOMAIN childEnv :
        Getenv(childEnv[i], "CTX_SHLVL") =
            IF ~LookupEnv(environ, "CTX_SHLVL") THEN <<"1">>
            ELSE IF IsCounter(Getenv(environ, "CTX_SHLVL"))
                THEN Itoa(Atoi(Getenv(environ, "CTX_SHLVL")).val + 1)
            ELSE <<"1">>

\* --- C21 ------------------------------------------------------------------
\* The four numeric flags with the variable each one is announced under.
NumericFlags ==
    {<<"CTX_OUTPUT_TOKEN_BUDGET", cfg.outputTokenBudget>>,
     <<"CTX_THINKING_TOKEN_BUDGET", cfg.thinkingTokenBudget>>,
     <<"CTX_COST_BUDGET_CENTS", cfg.costBudgetCents>>,
     <<"CTX_RETRY_MAX", cfg.pluginRetries>>}

\* C21: in a candidate's environment each of the output-token budget, the
\* thinking-token budget, the cost budget and the retry count has exactly
\* one entry, the decimal form of the configured value, when that value is
\* not zero, and no entry at all when it is zero.
C21_NumericFlagsSetIffNonZero ==
    \A i \in DOMAIN childEnv : \A f \in NumericFlags :
        IF f[2] # 0
            THEN /\ Cardinality(EntriesOf(i, f[1])) = 1
                 /\ Getenv(childEnv[i], f[1]) = Itoa(f[2])
            ELSE EntriesOf(i, f[1]) = {}

\* --- C22 ------------------------------------------------------------------
\* C22: whenever the configured timeout is greater than zero, were it
\* shorter than a second, a candidate's environment has exactly one
\* CTX_TIMEOUT_SECONDS entry and exactly one CTX_DEADLINE_TIMESTAMP entry,
\* and the latter is the time of the run plus the timeout, in the whole
\* seconds of a Unix timestamp.
C22_TimeoutGivesBothVariables ==
    \A i \in DOMAIN childEnv :
        cfg.pluginTimeout > 0 =>
            /\ Cardinality(EntriesOf(i, "CTX_TIMEOUT_SECONDS")) = 1
            /\ Cardinality(EntriesOf(i, "CTX_DEADLINE_TIMESTAMP")) = 1
            /\ Getenv(childEnv[i], "CTX_DEADLINE_TIMESTAMP") =
                   Itoa(Unix(now + cfg.pluginTimeout))

\* --- C23 ------------------------------------------------------------------
\* The invocation before the present one.
Previous == hist[Len(hist)]

\* A list of entries with the value of the deadline timestamp blanked.
MaskDeadline(env) ==
    [j \in DOMAIN env |->
        IF env[j].k = "CTX_DEADLINE_TIMESTAMP" THEN Entry(env[j].k, <<>>)
        ELSE env[j]]

\* C23: when the same command is run again from the same environment and
\* gets the same session identifier, the list of entries composed for the
\* candidates is the list composed the first time, entry by entry in the
\* same order, the value of the deadline timestamp apart.
C23_SameInputsSameList ==
    (/\ hist # <<>>
     /\ childEnv # <<>>
     /\ Previous.next = "again"
     /\ Previous.executed
     /\ Previous.session = sessionID)
        => MaskDeadline(childEnv[1]) = MaskDeadline(Previous.env)

\* --- C24 ------------------------------------------------------------------
\* No element of a sequence occurs twice.
NoDuplicates(s) == \A i, j \in DOMAIN s : s[i] = s[j] => i = j

\* The directories named in PATH, in absolute form.
SearchDirs ==
    {Abs(e) : e \in Range(SplitList(Getenv(environ, "PATH"))) \ {<<>>}}

\* C24: once discovery is over, every directory of the search path has been
\* listed exactly once, however often PATH names it, literally or under
\* names with the same absolute form, and no candidate path occurs twice in
\* the discovery result.
C24_DirectoriesListedOnce ==
    rpc # "find" =>
        /\ \A d \in SearchDirs :
              Cardinality({i \in DOMAIN proc.listed : proc.listed[i] = d}) = 1
        /\ NoDuplicates(proc.listed)
        /\ NoDuplicates(discovered)

\* PATH names /bin twice, the second time as bin/ after an empty element:
\* it was listed once and its candidate found once.
C24_Witness ==
    /\ rpc # "find"
    /\ Getenv(environ, "PATH") = <<"/", "bin", ":", ":", "bin", "/">>
    /\ proc.listed = << <<"/", "bin">> >>
    /\ discovered = << <<"/", "bin", "/", "ctx-", "git">> >>

\* --- C25 ------------------------------------------------------------------
\* C25: no path of the discovery result names the executable file of ctx
\* itself, under whatever name of the search path that file is reached.
C25_NeverDiscoversItself ==
    \A i \in DOMAIN discovered : Resolve(discovered[i]) # Self

\* --- C26 ------------------------------------------------------------------
\* C26: JSON output is compact whenever --summary is given, whatever the
\* width of --indent; without --summary every level of nesting is indented
\* by the configured width, and a width of zero or less, which leaves
\* nothing to indent by, gives the compact form.
C26_SummaryIsCompact ==
    (Exited /\ childEnv # <<>> /\ cfg.outputFormat = "json") =>
        LET out == proc.stdout[1]
        IN  /\ cfg.summary => (out.compact /\ out.indent = 0)
            /\ (~cfg.summary /\ cfg.indent > 0) =>
                  (~out.compact /\ out.indent = cfg.indent)
            /\ (~cfg.summary /\ cfg.indent <= 0) =>
                  (out.compact /\ out.indent = 0)

\* A JSON run with --summary and --indent 4 has printed compact output.
C26_Witness ==
    /\ Exited
    /\ childEnv # <<>>
    /\ cfg.outputFormat = "json"
    /\ cfg.summary
    /\ cfg.indent = 4
    /\ proc.stdout[1].compact

\* --- C27 ------------------------------------------------------------------
\* The limit is 1 and there is no deadline.
Sequential == cfg.maxParallel = 1 /\ cfg.pluginTimeout = 0

\* The worker of the candidate is past its merge or discard and has given
\* its token back.
Finished(c) == pc[c] \in {"wgdone", "done"}

\* The aggregate of a run in discovery order: under every name reported by
\* a valid candidate, the envelope of the last such candidate discovered.
LastValidWins ==
    LET V == {c \in Cands : NaturallyValid(c)}
        N == {PluginData(c).Name : c \in V}
        Last(n) == CHOOSE c \in V :
                      /\ PluginData(c).Name = n
                      /\ \A d \in V : PluginData(d).Name = n => d <= c
    IN  [n \in N |-> PluginData(Last(n))]

\* C27: with limit 1 and no deadline, the child of a candidate is not
\* spawned before the worker of every candidate discovered earlier has
\* finished its merge or discard, the merges happen in discovery order, and
\* the map returned is the same for every interleaving: under each name the
\* envelope of the last discovered valid candidate reporting it.
C27_SequentialIsDeterministic ==
    Sequential =>
        /\ \A c, d \in Cands :
              (c < d /\ pc[d] \notin {"idle", "start"}) => Finished(c)
        /\ \A c, d \in Cands :
              (c < d /\ (InMerge(d) \/ d \in h.merged)) =>
                  /\ ~InMerge(c)
                  /\ NaturallyValid(c) => c \in h.merged
        /\ Returned => results = LastValidWins

\* A sequential run has returned in which two valid candidates reported one
\* name: the later one's envelope is kept.
C27_Witness ==
    /\ Sequential
    /\ Returned
    /\ \A c \in Cands : NaturallyValid(c)
    /\ PluginData(1).Name = PluginData(NumPlugins).Name
    /\ results[PluginData(1).Name].Data = <<NumPlugins>>

\* --- C28 ------------------------------------------------------------------
\* The main loop has taken a token for the candidate: it has sent on the
\* gate in the candidate's iteration.
Admitted(c) == c < idx \/ (c = idx /\ mainpc = "go")

\* Workers that are live: admitted, and not yet past the release of their
\* token.
Live == {c \in Cands : Admitted(c) /\ ~Finished(c)}

\* C28: on every way out (spawn or exit failure, parse failure, failed
\* validation, merge) a worker gives its token back exactly once, and
\* after giving the merge lock back if it took it; the number of tokens
\* held is at every moment the number of live workers, a worker being live
\* from the moment the loop takes the token for it until it gives the token
\* back; and when executePlugins has returned no token and no lock is held.
C28_TokenAndLockReleased ==
    /\ \A c \in Cands :
          /\ h.released[c] = IF Finished(c) THEN 1 ELSE 0
          /\ pc[c] \in {"release", "wgdone", "done"} => mu # c
    /\ semaphore = Cardinality(Live)
    /\ Returned => (semaphore = 0 /\ mu = 0)

\* A run has returned in which one worker left after a failure and another
\* after its merge.
C28_Witness ==
    /\ Returned
    /\ \E c \in Cands : Failed(c) /\ h.released[c] = 1
    /\ \E c \in Cands : c \in h.merged /\ h.released[c] = 1
    /\ semaphore = 0

\* --- C29 ------------------------------------------------------------------
\* The number a list of entries carries under CTX_SHLVL.
CounterOf(env) == Atoi(Getenv(env, "CTX_SHLVL")).val

\* C29: when a candidate runs ctx again with the environment it was given,
\* the candidates of that invocation get the session identifier the level
\* above passed down, and a nesting counter that is the one passed down by
\* the level above plus one.
C29_NestedKeepsSessionAddsOne ==
    (hist # <<>> /\ Previous.next = "nested") =>
        \A i \in DOMAIN childEnv :
            /\ Getenv(childEnv[i], "CTX_SESSION") = Previous.session
            /\ CounterOf(childEnv[i]) = CounterOf(Previous.env) + 1

\* --- C30 ------------------------------------------------------------------
\* The string ctx reads its counter from: CTX_SHLVL, and SHLVL when that is
\* unset or empty.
InheritedCounter ==
    IF Getenv(environ, "CTX_SHLVL") # <<>> THEN Getenv(environ, "CTX_SHLVL")
    ELSE Getenv(environ, "SHLVL")

\* C30: whatever CTX_SHLVL and SHLVL ctx inherits, the largest int
\* included, the CTX_SHLVL of every candidate is a decimal integer that is
\* at least 1 and, when the inherited counter is a valid integer that is
\* not negative, greater than that counter.
C30_CounterPositiveAndGrowing ==
    \A i \in DOMAIN childEnv :
        LET set == Atoi(Getenv(childEnv[i], "CTX_SHLVL"))
        IN  /\ ~set.err
            /\ set.val >= 1
            /\ IsCounter(InheritedCounter) =>
                  set.val > Atoi(InheritedCounter).val

====
